---- MODULE Spec2Model ----
(***************************************************************************)
(* Production system (package production_system): a knowledge base of      *)
(* facts and rules is built once by _fromJSONEngine, then queried through  *)
(* Interpreter.Forward (data-driven chaining, one step per round of the    *)
(* outer loop) and Interpreter.Backward (goal-driven chaining).            *)
(*                                                                         *)
(* A *Fact is modelled by the position of the fact in the JSON description *)
(* (its address), a *Rule by its position in Interpreter.Rules; 0 is nil.  *)
(***************************************************************************)
EXTENDS Integers, Sequences, FiniteSets, TLC

\* ------------------------------------------------------------------ bounds

\* longest rule list of a JSON description
MaxRules == 3
\* longest list of true-fact names of a call
MaxT == 2

\* fact names a JSON description may declare, in declaration order
FactNames == <<"f1", "f2", "f3">>
\* a name no description declares
Unregistered == "f9"
\* names a caller may pass to Forward / Backward
CallNames == {FactNames[i] : i \in 1..Len(FactNames)} \cup {Unregistered}

\* rule descriptions (JSONRule) a JSON description may list
RulePool ==
  { [Name |-> "R1", Conditionals |-> <<"f1", "f2">>, Derivation |-> "f3"],
    [Name |-> "R1", Conditionals |-> <<"f1">>,       Derivation |-> "f2"],
    [Name |-> "R2", Conditionals |-> <<"f2">>,       Derivation |-> "f3"],
    [Name |-> "R3", Conditionals |-> <<>>,           Derivation |-> "f1"],
    [Name |-> "R4", Conditionals |-> <<>>,           Derivation |-> "f1"],
    [Name |-> "R5", Conditionals |-> <<"f3">>,       Derivation |-> "f1"] }

\* ------------------------------------------------------------------ helpers

Range(s) == {s[i] : i \in 1..Len(s)}

IsInjective(s) == \A i, j \in 1..Len(s) : s[i] = s[j] => i = j

\* duplicate-free sequences over S of length at most n
InjectiveSeqs(S, n) ==
  UNION {{s \in [1..k -> S] : IsInjective(s)} : k \in 0..n}

Prefix(s, k) == [i \in 1..k |-> s[i]]

\* fact lists of a JSON description: the first k names, or those and a
\* repetition of one of them
FactLists ==
  {Prefix(FactNames, k) : k \in 0..Len(FactNames)}
    \cup {Append(Prefix(FactNames, k), FactNames[j]) :
            k \in 1..(Len(FactNames) - 1), j \in {1}}

\* JSON descriptions (JSONInterpreter) handed to _fromJSONEngine
JSONInterpreters ==
  {[Facts |-> fs, Rules |-> rs] :
     fs \in FactLists, rs \in InjectiveSeqs(RulePool, MaxRules)}

\* ------------------------------------------------------------------ types

EmptyFacts == [n \in {} |-> 0]

\* (*Interpreter)(nil)
NoEngine == [ok |-> FALSE, Facts |-> EmptyFacts, Rules |-> <<>>]

\* ------------------------------------------------------------------ builder

\* in, with the slice read from its second entry on
in_skipFirst(facts, fact) == \E i \in 2..Len(facts) : facts[i] = fact

\* in: membership of a *Fact in a slice, by pointer
in(facts, fact) == \E i \in 1..Len(facts) : facts[i] = fact

\* first loop of _fromJSONEngine: the fact map, or the position of the first
\* doubled fact
RECURSIVE loadFacts(_, _, _)
loadFacts(jsonFacts, i, Facts) ==
  IF i > Len(jsonFacts) THEN [err |-> "", Facts |-> Facts]
  ELSE IF jsonFacts[i] \in DOMAIN Facts
       THEN [err |-> "Doubled fact", Facts |-> EmptyFacts]
       ELSE loadFacts(jsonFacts, i + 1, Facts @@ (jsonFacts[i] :> i))

\* conditionals of one rule resolved through the fact map
resolveConditionals(Facts, names) == [j \in 1..Len(names) |-> Facts[names[j]]]

\* second loop of _fromJSONEngine. knownRules is created empty and nothing
\* is ever stored in it, so it is passed along unchanged.
RECURSIVE loadRules(_, _, _, _, _)
loadRules(jsonRules, i, Facts, knownRules, Rules) ==
  IF i > Len(jsonRules) THEN [err |-> "", Rules |-> Rules]
  ELSE LET jrule == jsonRules[i] IN
    IF jrule.Name \in knownRules
    THEN [err |-> "Doubled rule", Rules |-> <<>>]
    ELSE IF \E j \in 1..Len(jrule.Conditionals) :
               jrule.Conditionals[j] \notin DOMAIN Facts
    THEN [err |-> "Unknown fact name", Rules |-> <<>>]
    ELSE IF jrule.Derivation \notin DOMAIN Facts
    THEN [err |-> "Unknown fact name", Rules |-> <<>>]
    ELSE loadRules(jsonRules, i + 1, Facts, knownRules,
                   Append(Rules,
                          [Name |-> jrule.Name,
                           Conditionals |->
                             resolveConditionals(Facts, jrule.Conditionals),
                           Derivation |-> Facts[jrule.Derivation]]))

\* _fromJSONEngine: (engine, nil) or (nil, error)
_fromJSONEngine(jsonEngine) ==
  LET f == loadFacts(jsonEngine.Facts, 1, EmptyFacts) IN
  IF f.err # "" THEN [err |-> f.err, engine |-> NoEngine]
  ELSE LET r == loadRules(jsonEngine.Rules, 1, f.Facts, {}, <<>>) IN
    IF r.err # "" THEN [err |-> r.err, engine |-> NoEngine]
    ELSE [err |-> "",
          engine |-> [ok |-> TRUE, Facts |-> f.Facts, Rules |-> r.Rules]]

\* ------------------------------------------------------------------ forward

\* inner loops of forward over trueFacts for one rule, from position k:
\* derived is cleared by an entry equal to the rule's derivation, every other
\* entry adds one match per conditional equal to it
RECURSIVE scanTrueFacts(_, _, _, _, _)
scanTrueFacts(rule, trueFacts, k, matches, derived) ==
  IF k > Len(trueFacts) THEN [matches |-> matches, derived |-> derived]
  ELSE IF rule.Derivation = trueFacts[k]
       THEN scanTrueFacts(rule, trueFacts, k + 1, matches, FALSE)
       ELSE scanTrueFacts(rule, trueFacts, k + 1,
              matches + Cardinality({j \in 1..Len(rule.Conditionals) :
                                       rule.Conditionals[j] = trueFacts[k]}),
              derived)

\* the test without `derived`
ruleFires_noGuard(rule, trueFacts) ==
  scanTrueFacts(rule, trueFacts, 1, 0, TRUE).matches = Len(rule.Conditionals)

\* the test with matches compared to the number of true facts
ruleFires_lenTrueFacts(rule, trueFacts) ==
  LET t == scanTrueFacts(rule, trueFacts, 1, 0, TRUE) IN
  t.derived /\ t.matches = Len(trueFacts)

\* the test `derived && matches == len(rule.Conditionals)`
ruleFires(rule, trueFacts) ==
  LET t == scanTrueFacts(rule, trueFacts, 1, 0, TRUE) IN
  t.derived /\ t.matches = Len(rule.Conditionals)

\* loop over e.Rules of one round, from rule i: rules are tested against
\* trueFacts, which the loop does not change
RECURSIVE scanRules(_, _, _, _, _)
scanRules(e, i, trueFacts, resultFacts, usedRules) ==
  IF i > Len(e.Rules)
  THEN [resultFacts |-> resultFacts, usedRules |-> usedRules]
  ELSE IF ruleFires(e.Rules[i], trueFacts)
       THEN scanRules(e, i + 1, trueFacts,
                      Append(resultFacts, e.Rules[i].Derivation),
                      Append(usedRules, i))
       ELSE scanRules(e, i + 1, trueFacts, resultFacts, usedRules)

\* a round whose usedRules starts empty (usedRules made inside the outer loop)
forwardRound_reset(e, trueFacts, usedRules) ==
  LET r == scanRules(e, 1, trueFacts, <<>>, <<>>) IN
  [trueFacts |-> trueFacts \o r.resultFacts,
   usedRules |-> r.usedRules,
   resultFacts |-> r.resultFacts]

\* the loop over e.Rules with every derivation appended to trueFacts at once
RECURSIVE scanRules_eager(_, _, _, _, _)
scanRules_eager(e, i, trueFacts, resultFacts, usedRules) ==
  IF i > Len(e.Rules)
  THEN [resultFacts |-> resultFacts, usedRules |-> usedRules]
  ELSE IF ruleFires(e.Rules[i], trueFacts)
       THEN scanRules_eager(e, i + 1,
                            Append(trueFacts, e.Rules[i].Derivation),
                            Append(resultFacts, e.Rules[i].Derivation),
                            Append(usedRules, i))
       ELSE scanRules_eager(e, i + 1, trueFacts, resultFacts, usedRules)

\* a round whose rules see the derivations of the rules before them
forwardRound_eager(e, trueFacts, usedRules) ==
  LET r == scanRules_eager(e, 1, trueFacts, <<>>, usedRules) IN
  [trueFacts |-> trueFacts \o r.resultFacts,
   usedRules |-> r.usedRules,
   resultFacts |-> r.resultFacts]

\* one pass of the outer loop of forward: the round's batch, then the batch
\* appended to trueFacts
forwardRound(e, trueFacts, usedRules) ==
  LET r == scanRules(e, 1, trueFacts, <<>>, usedRules) IN
  [trueFacts |-> trueFacts \o r.resultFacts,
   usedRules |-> r.usedRules,
   resultFacts |-> r.resultFacts]

\* the outer loop of forward, run to its return
RECURSIVE forwardLoop(_, _, _, _)
forwardLoop(e, trueFacts, query, usedRules) ==
  LET r == forwardRound(e, trueFacts, usedRules) IN
  IF Len(r.resultFacts) = 0
  THEN [isDerived |-> in(r.trueFacts, query), usedRules |-> r.usedRules]
  ELSE forwardLoop(e, r.trueFacts, query, r.usedRules)

\* Interpreter.forward
forward(e, trueFacts, query) == forwardLoop(e, trueFacts, query, <<>>)

\* ------------------------------------------------------------------ backward

\* frames of _isDerivable the goroutine stack holds before the runtime aborts
\* the program with a stack overflow
MaxDepth == 4

Max(a, b) == IF a >= b THEN a ELSE b

\* the program died inside a frame of _isDerivable at the given depth
StackOverflow(trueFacts, usedRules, depth) ==
  [ret |-> FALSE, usedRules |-> usedRules, trueFacts |-> trueFacts,
   calls |-> 1, depth |-> depth, overflow |-> TRUE]

\* Interpreter._isDerivable. usedRules and trueFacts are slice parameters:
\* the appends before `return true` bind the callee's own variables, so the
\* record carries them only to show what the callee held when it returned.
\* depth is the number of frames of _isDerivable on the stack, this one
\* included; calls counts the invocations of _isDerivable and the depth field
\* is the deepest frame reached.
RECURSIVE _isDerivable(_, _, _, _, _)
RECURSIVE tryRules(_, _, _, _, _, _, _)
RECURSIVE derivableCount(_, _, _, _, _, _, _)
RECURSIVE tryRules_firstOnly(_, _, _, _, _, _, _)
RECURSIVE derivableCount_callFirst(_, _, _, _, _, _, _)

\* derivableCount with the operands of && exchanged: the recursive call is
\* made for every conditional, the membership test after it
derivableCount_callFirst(e, trueFacts, rule, usedRules, depth, j, acc) ==
  IF j > Len(rule.Conditionals) \/ acc.overflow THEN acc
  ELSE LET d == _isDerivable(e, trueFacts, rule.Conditionals[j], usedRules,
                             depth + 1)
       IN derivableCount_callFirst(e, trueFacts, rule, usedRules, depth, j + 1,
            [count |-> acc.count
                       + (IF d.ret /\ in(trueFacts, rule.Conditionals[j])
                          THEN 1 ELSE 0),
             calls |-> acc.calls + d.calls,
             depth |-> Max(acc.depth, d.depth),
             overflow |-> d.overflow])

\* conditionals of rule from position j on: `in(...) && _isDerivable(...)`;
\* acc holds derivableCount and what the nested calls did so far
derivableCount(e, trueFacts, rule, usedRules, depth, j, acc) ==
  IF j > Len(rule.Conditionals) \/ acc.overflow THEN acc
  ELSE IF in(trueFacts, rule.Conditionals[j])
       THEN LET d == _isDerivable(e, trueFacts, rule.Conditionals[j],
                                  usedRules, depth + 1)
            IN derivableCount(e, trueFacts, rule, usedRules, depth, j + 1,
                 [count |-> acc.count + (IF d.ret THEN 1 ELSE 0),
                  calls |-> acc.calls + d.calls,
                  depth |-> Max(acc.depth, d.depth),
                  overflow |-> d.overflow])
       ELSE derivableCount(e, trueFacts, rule, usedRules, depth, j + 1, acc)

\* tryRules with `return false` inside the loop: the first rule that derives
\* the fact decides
tryRules_firstOnly(e, trueFacts, fact, usedRules, depth, i, acc) ==
  IF i > Len(e.Rules)
  THEN [ret |-> FALSE, usedRules |-> usedRules, trueFacts |-> trueFacts,
        calls |-> acc.calls, depth |-> acc.depth, overflow |-> FALSE]
  ELSE IF e.Rules[i].Derivation = fact
       THEN LET c == derivableCount(e, trueFacts, e.Rules[i], usedRules, depth,
                       1, [count |-> 0, calls |-> 0, depth |-> depth,
                           overflow |-> FALSE])
            IN [ret |-> ~c.overflow /\ c.count = Len(e.Rules[i].Conditionals),
                usedRules |-> usedRules, trueFacts |-> trueFacts,
                calls |-> acc.calls + c.calls,
                depth |-> Max(acc.depth, c.depth),
                overflow |-> c.overflow]
       ELSE tryRules_firstOnly(e, trueFacts, fact, usedRules, depth, i + 1, acc)

\* loop over e.Rules of _isDerivable from rule i on; acc holds the calls made
\* and the deepest frame reached so far
tryRules(e, trueFacts, fact, usedRules, depth, i, acc) ==
  IF i > Len(e.Rules)
  THEN [ret |-> FALSE, usedRules |-> usedRules, trueFacts |-> trueFacts,
        calls |-> acc.calls, depth |-> acc.depth, overflow |-> FALSE]
  ELSE IF e.Rules[i].Derivation = fact
       THEN LET c == derivableCount(e, trueFacts, e.Rules[i], usedRules, depth,
                       1, [count |-> 0, calls |-> 0, depth |-> depth,
                           overflow |-> FALSE])
                n == [calls |-> acc.calls + c.calls,
                      depth |-> Max(acc.depth, c.depth)]
            IN IF c.overflow
               THEN [StackOverflow(trueFacts, usedRules, n.depth)
                       EXCEPT !.calls = n.calls]
               ELSE IF c.count = Len(e.Rules[i].Conditionals)
               THEN [ret |-> TRUE,
                     usedRules |-> Append(usedRules, i),
                     trueFacts |-> Append(trueFacts, e.Rules[i].Derivation),
                     calls |-> n.calls, depth |-> n.depth, overflow |-> FALSE]
               ELSE tryRules(e, trueFacts, fact, usedRules, depth, i + 1, n)
       ELSE tryRules(e, trueFacts, fact, usedRules, depth, i + 1, acc)

_isDerivable(e, trueFacts, fact, usedRules, depth) ==
  IF depth > MaxDepth THEN StackOverflow(trueFacts, usedRules, depth)
  ELSE IF in(trueFacts, fact)
  THEN [ret |-> TRUE, usedRules |-> usedRules, trueFacts |-> trueFacts,
        calls |-> 1, depth |-> depth, overflow |-> FALSE]
  ELSE tryRules(e, trueFacts, fact, usedRules, depth, 1,
                [calls |-> 1, depth |-> depth])

\* Interpreter.backward: returns its own usedRules, which _isDerivable was
\* handed by value
backward(e, trueFacts, query) ==
  LET usedRules == <<>>
      d == _isDerivable(e, trueFacts, query, usedRules, 1)
  IN [isDerived |-> d.ret, usedRules |-> usedRules, calls |-> d.calls,
      depth |-> d.depth, overflow |-> d.overflow]

\* Engine._isDerivable, the earlier revision of the search:
\* `e._isDerivable(...) && in(...)`, the recursive call first
RECURSIVE Engine_isDerivable(_, _, _, _, _)
RECURSIVE Engine_tryRules(_, _, _, _, _, _, _)
RECURSIVE Engine_derivableCount(_, _, _, _, _, _, _)

Engine_derivableCount(e, trueFacts, rule, usedRules, depth, j, acc) ==
  IF j > Len(rule.Conditionals) \/ acc.overflow THEN acc
  ELSE LET d == Engine_isDerivable(e, trueFacts, rule.Conditionals[j],
                                   usedRules, depth + 1)
       IN Engine_derivableCount(e, trueFacts, rule, usedRules, depth, j + 1,
            [count |-> acc.count
                       + (IF d.ret /\ in(trueFacts, rule.Conditionals[j])
                          THEN 1 ELSE 0),
             calls |-> acc.calls + d.calls,
             depth |-> Max(acc.depth, d.depth),
             overflow |-> d.overflow])

Engine_tryRules(e, trueFacts, fact, usedRules, depth, i, acc) ==
  IF i > Len(e.Rules)
  THEN [ret |-> FALSE, usedRules |-> usedRules, trueFacts |-> trueFacts,
        calls |-> acc.calls, depth |-> acc.depth, overflow |-> FALSE]
  ELSE IF e.Rules[i].Derivation = fact
       THEN LET c == Engine_derivableCount(e, trueFacts, e.Rules[i], usedRules,
                       depth, 1, [count |-> 0, calls |-> 0, depth |-> depth,
                                  overflow |-> FALSE])
                n == [calls |-> acc.calls + c.calls,
                      depth |-> Max(acc.depth, c.depth)]
            IN IF c.overflow
               THEN [StackOverflow(trueFacts, usedRules, n.depth)
                       EXCEPT !.calls = n.calls]
               ELSE IF c.count = Len(e.Rules[i].Conditionals)
               THEN [ret |-> TRUE,
                     usedRules |-> Append(usedRules, i),
                     trueFacts |-> Append(trueFacts, e.Rules[i].Derivation),
                     calls |-> n.calls, depth |-> n.depth, overflow |-> FALSE]
               ELSE Engine_tryRules(e, trueFacts, fact, usedRules, depth,
                                    i + 1, n)
       ELSE Engine_tryRules(e, trueFacts, fact, usedRules, depth, i + 1, acc)

Engine_isDerivable(e, trueFacts, fact, usedRules, depth) ==
  IF depth > MaxDepth THEN StackOverflow(trueFacts, usedRules, depth)
  ELSE IF in(trueFacts, fact)
  THEN [ret |-> TRUE, usedRules |-> usedRules, trueFacts |-> trueFacts,
        calls |-> 1, depth |-> depth, overflow |-> FALSE]
  ELSE Engine_tryRules(e, trueFacts, fact, usedRules, depth, 1,
                       [calls |-> 1, depth |-> depth])

\* Engine.backward
Engine_backward(e, trueFacts, query) ==
  LET usedRules == <<>>
      d == Engine_isDerivable(e, trueFacts, query, usedRules, 1)
  IN [isDerived |-> d.ret, usedRules |-> usedRules, calls |-> d.calls,
      depth |-> d.depth, overflow |-> d.overflow]

\* ------------------------------------------------------------------ calls

\* _convertNames with the query looked up before the true-fact names
_convertNames_queryFirst(e, trueFactNames, queryName) ==
  IF queryName \notin DOMAIN e.Facts
  THEN [err |-> "Unknown fact", errName |-> queryName,
        trueFacts |-> <<>>, query |-> 0]
  ELSE IF \E i \in 1..Len(trueFactNames) : trueFactNames[i] \notin DOMAIN e.Facts
  THEN [err |-> "Unknown fact",
        errName |-> trueFactNames[CHOOSE i \in 1..Len(trueFactNames) :
                      /\ trueFactNames[i] \notin DOMAIN e.Facts
                      /\ \A j \in 1..(i - 1) : trueFactNames[j] \in DOMAIN e.Facts],
        trueFacts |-> <<>>, query |-> 0]
  ELSE [err |-> "", errName |-> "",
        trueFacts |-> [i \in 1..Len(trueFactNames) |-> e.Facts[trueFactNames[i]]],
        query |-> e.Facts[queryName]]

\* loop of _convertNames over trueFactNames from position i on
RECURSIVE convertLoop(_, _, _, _)
convertLoop(e, trueFactNames, i, trueFacts) ==
  IF i > Len(trueFactNames) THEN [err |-> "", errName |-> "", trueFacts |-> trueFacts]
  ELSE IF trueFactNames[i] \in DOMAIN e.Facts
       THEN convertLoop(e, trueFactNames, i + 1,
                        Append(trueFacts, e.Facts[trueFactNames[i]]))
       ELSE [err |-> "Unknown fact", errName |-> trueFactNames[i],
             trueFacts |-> <<>>]

\* Interpreter._convertNames: (trueFacts, queryFact, nil) or ([], nil, error)
_convertNames(e, trueFactNames, queryName) ==
  LET t == convertLoop(e, trueFactNames, 1, <<>>) IN
  IF t.err # ""
  THEN [err |-> t.err, errName |-> t.errName, trueFacts |-> <<>>, query |-> 0]
  ELSE IF queryName \notin DOMAIN e.Facts
  THEN [err |-> "Unknown fact", errName |-> queryName,
        trueFacts |-> <<>>, query |-> 0]
  ELSE [err |-> "", errName |-> "",
        trueFacts |-> t.trueFacts, query |-> e.Facts[queryName]]

\* the loop of Forward / Backward over usedRules: rule.Name of each
ruleNames(e, usedRules) == [k \in 1..Len(usedRules) |-> e.Rules[usedRules[k]].Name]

\* Interpreter.Forward, run from entry to return
ForwardReturns(e, trueFactNames, queryName) ==
  LET cn == _convertNames(e, trueFactNames, queryName) IN
  IF cn.err # ""
  THEN [isDerived |-> FALSE, usedRulesNames |-> <<>>, nilTrail |-> TRUE,
        err |-> cn.err, errName |-> cn.errName]
  ELSE LET r == forward(e, cn.trueFacts, cn.query) IN
       [isDerived |-> r.isDerived,
        usedRulesNames |-> ruleNames(e, r.usedRules), nilTrail |-> FALSE,
        err |-> "", errName |-> ""]

\* Interpreter.Backward, run from entry to return
BackwardReturns(e, trueFactNames, queryName) ==
  LET cn == _convertNames(e, trueFactNames, queryName) IN
  IF cn.err # ""
  THEN [isDerived |-> FALSE, usedRulesNames |-> <<>>, nilTrail |-> TRUE,
        err |-> cn.err, errName |-> cn.errName, calls |-> 0, depth |-> 0,
        overflow |-> FALSE]
  ELSE LET b == backward(e, cn.trueFacts, cn.query) IN
       [isDerived |-> b.isDerived,
        usedRulesNames |-> ruleNames(e, b.usedRules), nilTrail |-> FALSE,
        err |-> "", errName |-> "", calls |-> b.calls, depth |-> b.depth,
        overflow |-> b.overflow]

\* ------------------------------------------------------------------ state

VARIABLES
  engine,    \* the *Interpreter FromFile returned (NoEngine before, or on error)
  buildErr,  \* the error FromFile returned, "" for nil
  call       \* per caller: the call of Forward / Backward it is in, its locals
             \* and what the call returned

vars == <<engine, buildErr, call>>

\* a caller outside any call
IdleCall ==
  [pc |-> "idle", kind |-> "", trueFactNames |-> <<>>, queryName |-> "",
   trueFacts |-> <<>>, query |-> 0, usedRules |-> <<>>, rounds |-> 0,
   fired |-> <<>>, calls |-> 0, depth |-> 0, overflow |-> FALSE,
   isDerived |-> FALSE, usedRulesNames |-> <<>>, nilTrail |-> FALSE,
   err |-> "", errName |-> ""]

\* `return false, nil, err` of Forward / Backward
errorReturn(kind, trueFactNames, queryName, cn) ==
  [IdleCall EXCEPT !.pc = "done", !.kind = kind,
                   !.trueFactNames = trueFactNames, !.queryName = queryName,
                   !.isDerived = FALSE, !.usedRulesNames = <<>>,
                   !.nilTrail = TRUE, !.err = cn.err, !.errName = cn.errName]

\* forward entered with the usedRules another call in flight is holding
forwardStart_stale(c, trueFacts, query) ==
  [trueFacts |-> trueFacts, query |-> query,
   usedRules |->
     IF \E d \in DOMAIN call \ {c} : call[d].pc = "forward"
     THEN call[CHOOSE d \in DOMAIN call \ {c} : call[d].pc = "forward"].usedRules
     ELSE <<>>,
   rounds |-> 0, fired |-> <<>>]

\* locals of forward on entry: the arguments and `usedRules := make([]*Rule, 0)`
forwardStart(c, trueFacts, query) ==
  [trueFacts |-> trueFacts, query |-> query,
   usedRules |-> <<>>, rounds |-> 0, fired |-> <<>>]

\* the rules whose test succeeds against trueFacts
firedNow(e, trueFacts) ==
  {i \in 1..Len(e.Rules) : ruleFires(e.Rules[i], trueFacts)}

InitWith(callers) ==
  /\ engine = NoEngine
  /\ buildErr = ""
  /\ call = [c \in callers |-> IdleCall]

Init == InitWith({"main"})

\* FromFile: the description is read and handed to _fromJSONEngine
FromFile(jsonEngine) ==
  /\ ~engine.ok
  /\ buildErr = ""
  /\ LET b == _fromJSONEngine(jsonEngine) IN
       /\ engine' = b.engine
       /\ buildErr' = b.err
  /\ UNCHANGED call

\* Forward up to the first round of forward: _convertNames, then either the
\* error return or the entry of forward
Forward(c, trueFactNames, queryName) ==
  /\ engine.ok
  /\ call[c].pc = "idle"
  /\ LET cn == _convertNames(engine, trueFactNames, queryName) IN
       call' = [call EXCEPT ![c] =
         IF cn.err # ""
         THEN errorReturn("Forward", trueFactNames, queryName, cn)
         ELSE LET l == forwardStart(c, cn.trueFacts, cn.query) IN
              [IdleCall EXCEPT !.pc = "forward", !.kind = "Forward",
                               !.trueFactNames = trueFactNames,
                               !.queryName = queryName,
                               !.trueFacts = l.trueFacts, !.query = l.query,
                               !.usedRules = l.usedRules, !.rounds = l.rounds,
                               !.fired = l.fired]]
  /\ UNCHANGED <<engine, buildErr>>

\* one round of forward; a round with no new fact returns, and Forward turns
\* the rules into their names
ForwardRound(c) ==
  /\ call[c].pc = "forward"
  /\ LET r == forwardRound(engine, call[c].trueFacts, call[c].usedRules)
         log == Append(call[c].fired, firedNow(engine, call[c].trueFacts))
     IN call' = [call EXCEPT ![c] =
          IF Len(r.resultFacts) = 0
          THEN [@ EXCEPT !.pc = "done", !.trueFacts = r.trueFacts,
                         !.usedRules = r.usedRules, !.rounds = @ + 1,
                         !.fired = log,
                         !.isDerived = in(r.trueFacts, call[c].query),
                         !.usedRulesNames = ruleNames(engine, r.usedRules),
                         !.nilTrail = FALSE]
          ELSE [@ EXCEPT !.trueFacts = r.trueFacts,
                         !.usedRules = r.usedRules, !.rounds = @ + 1,
                         !.fired = log]]
  /\ UNCHANGED <<engine, buildErr>>

\* Backward, whole: _convertNames, backward, the names of the rules; a call
\* whose recursion exhausts the stack ends the program and never returns
Backward(c, trueFactNames, queryName) ==
  /\ engine.ok
  /\ call[c].pc = "idle"
  /\ LET cn == _convertNames(engine, trueFactNames, queryName)
         b == BackwardReturns(engine, trueFactNames, queryName)
     IN call' = [call EXCEPT ![c] =
          [IdleCall EXCEPT !.pc = IF b.overflow THEN "fatal" ELSE "done",
                           !.kind = "Backward",
                           !.trueFactNames = trueFactNames,
                           !.queryName = queryName,
                           !.trueFacts = cn.trueFacts, !.query = cn.query,
                           !.calls = b.calls, !.depth = b.depth,
                           !.overflow = b.overflow,
                           !.isDerived = b.isDerived,
                           !.usedRulesNames = b.usedRulesNames,
                           !.nilTrail = b.nilTrail,
                           !.err = b.err, !.errName = b.errName]]
  /\ UNCHANGED <<engine, buildErr>>

\* the caller has read what the call returned
Return(c) ==
  /\ call[c].pc = "done"
  /\ call' = [call EXCEPT ![c] = IdleCall]
  /\ UNCHANGED <<engine, buildErr>>

\* lists of true-fact names a caller passes
TrueFactLists == InjectiveSeqs(CallNames, MaxT)

Next ==
  \/ \E j \in JSONInterpreters : FromFile(j)
  \/ \E c \in DOMAIN call, T \in TrueFactLists, q \in CallNames : Forward(c, T, q)
  \/ \E c \in DOMAIN call : ForwardRound(c)
  \/ \E c \in DOMAIN call, T \in TrueFactLists, q \in CallNames : Backward(c, T, q)
  \/ \E c \in DOMAIN call : Return(c)

Spec == Init /\ [][Next]_vars

\* ------------------------------------------------------------------ two callers

\* descriptions with every fact and one rule fewer than MaxRules
ConcJSON ==
  {[Facts |-> FactNames, Rules |-> rs] :
     rs \in InjectiveSeqs(RulePool, MaxRules - 1)}

\* the arguments the two callers pass
ConcLists == {<<>>, <<"f1">>, <<"f1", "f2">>, <<"f3">>, <<Unregistered>>}

ConcQueries == {"f2", "f3", Unregistered}

InitConc == InitWith({"q1", "q2"})

NextConc ==
  \/ \E j \in ConcJSON : FromFile(j)
  \/ \E c \in DOMAIN call, T \in ConcLists, q \in ConcQueries : Forward(c, T, q)
  \/ \E c \in DOMAIN call : ForwardRound(c)
  \/ \E c \in DOMAIN call, T \in ConcLists, q \in ConcQueries : Backward(c, T, q)
  \/ \E c \in DOMAIN call : Return(c)

\* two callers whose calls interleave round by round
SpecConc == InitConc /\ [][NextConc]_vars

\* ------------------------------------------------------------------ claims

\* fact handles of the names of a list
Handles(e, names) == {e.Facts[n] : n \in Range(names) \cap DOMAIN e.Facts}

\* rules whose consequent is outside ws and whose antecedents are all in ws
SetFirable(e, ws) ==
  {i \in 1..Len(e.Rules) :
     /\ e.Rules[i].Derivation \notin ws
     /\ Range(e.Rules[i].Conditionals) \subseteq ws}

\* the step of caller c is a round of forward
RoundStep(c) == call[c].pc = "forward" /\ call'[c] # call[c]

\* the rules a round appended to usedRules
LastBatch(old, new) ==
  {new.usedRules[k] : k \in (Len(old.usedRules) + 1)..Len(new.usedRules)}

Resolved(names, q) ==
  Range(names) \cup {q} \subseteq DOMAIN engine.Facts

ReturnedForward(c) ==
  call[c].pc = "done" /\ call[c].kind = "Forward" /\ call[c].err = ""

ReturnedBackward(c) ==
  call[c].pc = "done" /\ call[c].kind = "Backward" /\ call[c].err = ""

\* C1: in every round of forward the batch is exactly the set of rules whose
\* consequent is not in the Working Set of the start of the round and whose
\* antecedents are all in it.
C1_BatchIsFirableSet ==
  [][\A c \in DOMAIN call :
       RoundStep(c) =>
         LastBatch(call[c], call'[c])
           = SetFirable(engine, Range(call[c].trueFacts))]_vars

\* C2: a query Forward derives from T is derived from every duplicate-free
\* list that holds the names of T and more.
C2_Monotone ==
  \A c \in DOMAIN call :
    (ReturnedForward(c) /\ call[c].isDerived) =>
      \A T2 \in TrueFactLists :
        (/\ Range(call[c].trueFactNames) \subseteq Range(T2)
         /\ Range(call[c].trueFactNames) # Range(T2)
         /\ Resolved(T2, call[c].queryName))
        => ForwardReturns(engine, T2, call[c].queryName).isDerived

\* C3: when Backward proves a query that is not among the true facts, the
\* trail it returns names a rule that concludes the query.
C3_BackwardTrailNamesRule ==
  \A c \in DOMAIN call :
    (/\ ReturnedBackward(c)
     /\ call[c].isDerived
     /\ call[c].queryName \notin Range(call[c].trueFactNames))
    => \E k \in 1..Len(call[c].usedRulesNames), i \in 1..Len(engine.Rules) :
         /\ engine.Rules[i].Name = call[c].usedRulesNames[k]
         /\ engine.Rules[i].Derivation = call[c].query

\* C4 as stated: a query among the true-fact names makes Forward return true
\* and an empty trail.
C4_QueryKnownEmptyTrail ==
  \A c \in DOMAIN call :
    (ReturnedForward(c) /\ call[c].queryName \in Range(call[c].trueFactNames))
    => (call[c].isDerived /\ call[c].usedRulesNames = <<>>)

\* C4 amended: a query among the true-fact names makes Forward return true;
\* the trail is empty exactly when no rule has its consequent outside and all
\* its antecedents among the supplied facts, and is never nil.
C4_QueryKnownTrue ==
  \A c \in DOMAIN call :
    (ReturnedForward(c) /\ call[c].queryName \in Range(call[c].trueFactNames))
    => /\ call[c].isDerived
       /\ ~call[c].nilTrail
       /\ (call[c].usedRulesNames = <<>>
             <=> SetFirable(engine, Handles(engine, call[c].trueFactNames)) = {})

C4_Witness ==
  \E c \in DOMAIN call :
    /\ ReturnedForward(c)
    /\ call[c].queryName \in Range(call[c].trueFactNames)
    /\ call[c].isDerived
    /\ Len(call[c].usedRulesNames) >= 2

\* C5: a knowledge base that _fromJSONEngine returned has pairwise distinct
\* rule names (a description that repeats a rule name is refused).
C5_UniqueRuleNames ==
  engine.ok =>
    \A i, j \in 1..Len(engine.Rules) :
      engine.Rules[i].Name = engine.Rules[j].Name => i = j

\* the first name _convertNames cannot resolve: true-fact names in order,
\* then the query
FirstUnresolved(names, q) ==
  IF \E i \in 1..Len(names) : names[i] \notin DOMAIN engine.Facts
  THEN names[CHOOSE i \in 1..Len(names) :
         /\ names[i] \notin DOMAIN engine.Facts
         /\ \A j \in 1..(i - 1) : names[j] \in DOMAIN engine.Facts]
  ELSE q

\* C6: Forward and Backward return an error exactly when a true-fact name or
\* the query is no key of the fact map; the call then returns (false, nil,
\* error) at once, with no round and no proof step run, the error names the
\* first unresolved name, and the knowledge base is as it was.
C6_UnknownFactError ==
  [][\A c \in DOMAIN call :
       (call[c].pc = "idle" /\ call'[c].pc # "idle") =>
         LET n == call'[c] IN
         /\ (n.err # "") <=> ~Resolved(n.trueFactNames, n.queryName)
         /\ (n.err # "") =>
              /\ n.pc = "done"
              /\ n.err = "Unknown fact"
              /\ n.errName = FirstUnresolved(n.trueFactNames, n.queryName)
              /\ ~n.isDerived /\ n.nilTrail /\ n.usedRulesNames = <<>>
              /\ n.rounds = 0 /\ n.fired = <<>> /\ n.usedRules = <<>>
              /\ n.calls = 0
              /\ engine' = engine]_vars

C6_Witness ==
  \E c \in DOMAIN call :
    /\ call[c].pc = "done"
    /\ call[c].err = "Unknown fact"
    /\ Len(call[c].trueFactNames) = 2
    /\ \A i \in 1..2 : call[c].trueFactNames[i] \notin DOMAIN engine.Facts
    /\ call[c].queryName \notin DOMAIN engine.Facts
    /\ call[c].queryName \notin Range(call[c].trueFactNames)
    /\ call[c].errName = call[c].trueFactNames[1]
    /\ Len(engine.Rules) > 0

\* the number F of facts of the knowledge base
F == Cardinality(DOMAIN engine.Facts)

\* C7 as stated: forward runs at most F rounds.
C7_RoundsAtMostF ==
  \A c \in DOMAIN call : call[c].rounds <= F

\* C7 amended: forward returns in its round F - |T| + 1 at the latest, so
\* after at most F + 1 rounds; a call still running has run at most F - |T|.
C7_RoundsAtMostFPlusOne ==
  \A c \in DOMAIN call :
    call[c].kind = "Forward" =>
      /\ call[c].rounds <= F + 1
      /\ call[c].err = "" =>
           call[c].rounds <= F - Len(call[c].trueFactNames) + 1
      /\ call[c].pc = "forward" =>
           call[c].rounds <= F - Len(call[c].trueFactNames)

C7_Witness ==
  \E c \in DOMAIN call :
    /\ ReturnedForward(c)
    /\ call[c].trueFactNames = <<>>
    /\ F = Len(FactNames)
    /\ call[c].rounds = F + 1

\* the members of a set of numbers in ascending order
RECURSIVE Ascending(_)
Ascending(S) ==
  IF S = {} THEN <<>>
  ELSE LET m == CHOOSE x \in S : \A y \in S : x <= y
       IN <<m>> \o Ascending(S \ {m})

\* the rounds of a firing log one after the other, each in declaration order
RECURSIVE FlattenLog(_)
FlattenLog(log) ==
  IF log = <<>> THEN <<>>
  ELSE Ascending(Head(log)) \o FlattenLog(Tail(log))

\* C8: the trail of Forward is the rules that fired, round after round and
\* in declaration order within a round, given by name.
C8_TrailIsFiringOrder ==
  \A c \in DOMAIN call :
    (call[c].kind = "Forward" /\ call[c].err = "") =>
      LET all == FlattenLog(call[c].fired) IN
      /\ Len(call[c].fired) = call[c].rounds
      /\ call[c].usedRules = all
      /\ call[c].pc = "done" =>
           /\ ~call[c].nilTrail
           /\ call[c].usedRulesNames
                = [k \in 1..Len(all) |-> engine.Rules[all[k]].Name]

C8_Witness ==
  \E c \in DOMAIN call :
    /\ ReturnedForward(c)
    /\ Len(engine.Rules) = 2
    /\ engine.Rules[1].Name = "R2" /\ engine.Rules[2].Name = "R1"
    /\ call[c].trueFactNames = <<"f1">>
    /\ call[c].queryName = "f3"
    /\ call[c].isDerived
    /\ call[c].rounds = 3
    /\ call[c].usedRulesNames = <<"R1", "R2">>

\* rules that pass the test of forward against the slice ws: the derivation
\* is no entry of ws, and the pairs (conditional, equal entry of ws) are as
\* many as the conditionals
CountFirable(e, ws) ==
  {i \in 1..Len(e.Rules) :
     /\ e.Rules[i].Derivation \notin Range(ws)
     /\ Cardinality({p \in (1..Len(e.Rules[i].Conditionals)) \X (1..Len(ws)) :
                       e.Rules[i].Conditionals[p[1]] = ws[p[2]]})
          = Len(e.Rules[i].Conditionals)}

\* C10: a round decides every rule against the Working Set of its start, so
\* no rule uses a consequent of the same round whatever the declaration
\* order; the round then appends the consequents of its batch, which the
\* next round sees, and removes nothing.
C10_RoundSeesStartOnly ==
  [][\A c \in DOMAIN call :
       RoundStep(c) =>
         LET ws == call[c].trueFacts
             n0 == Len(call[c].usedRules)
             n1 == Len(call'[c].usedRules)
         IN /\ LastBatch(call[c], call'[c]) = CountFirable(engine, ws)
            /\ n1 - n0 = Cardinality(CountFirable(engine, ws))
            /\ call'[c].trueFacts
                 = ws \o [k \in 1..(n1 - n0) |->
                            engine.Rules[call'[c].usedRules[n0 + k]].Derivation]
            /\ SubSeq(call'[c].usedRules, 1, n0) = call[c].usedRules]_vars

C10_Witness ==
  \E c \in DOMAIN call :
    /\ call[c].kind = "Forward"
    /\ call[c].rounds = 2
    /\ Len(engine.Rules) >= 2
    /\ Len(engine.Rules[1].Conditionals) = 1
    /\ engine.Rules[2].Conditionals = <<engine.Rules[1].Derivation>>
    /\ call[c].fired = <<{1}, {2}>>
    /\ call[c].trueFacts
         = <<engine.Rules[1].Conditionals[1], engine.Rules[1].Derivation,
             engine.Rules[2].Derivation>>

\* what a call with these arguments returns when nothing else runs
Alone(e, kind, names, q) ==
  IF kind = "Forward"
  THEN ForwardReturns(e, names, q)
  ELSE [f \in {"isDerived", "usedRulesNames", "nilTrail", "err", "errName"} |->
          BackwardReturns(e, names, q)[f]]

Returned(r) ==
  [isDerived |-> r.isDerived, usedRulesNames |-> r.usedRulesNames,
   nilTrail |-> r.nilTrail, err |-> r.err, errName |-> r.errName]

\* C9: whatever calls of Forward and Backward run, one after the other or
\* interleaved, failed or not, the knowledge base stays as it was built, a
\* step of one call leaves every other call as it was, and every call
\* returns what the same call returns when run alone.
C9_CallsIndependent ==
  [][/\ engine.ok => engine' = engine
     /\ \A c, d \in DOMAIN call :
          (c # d /\ call'[c] # call[c]) => call'[d] = call[d]
     /\ \A c \in DOMAIN call :
          call'[c].pc = "done" =>
            Returned(call'[c])
              = Alone(engine, call'[c].kind, call'[c].trueFactNames,
                      call'[c].queryName)]_vars

C9_Witness ==
  /\ call["q1"].pc = "done" /\ call["q1"].kind = "Forward"
  /\ call["q1"].usedRulesNames = <<"R1", "R2">>
  /\ call["q2"].pc = "forward"
  /\ call["q2"].trueFactNames = call["q1"].trueFactNames
  /\ call["q2"].queryName = call["q1"].queryName
  /\ call["q2"].rounds = 1
  /\ call["q2"].usedRules # <<>>

\* rules that conclude q and whose conditionals are all in ws
Provers(e, ws, q) ==
  {i \in 1..Len(e.Rules) :
     /\ e.Rules[i].Derivation = q
     /\ Range(e.Rules[i].Conditionals) \subseteq ws}

\* rules that conclude q, in declaration order up to the first prover
Tried(e, ws, q) ==
  {i \in 1..Len(e.Rules) :
     /\ e.Rules[i].Derivation = q
     /\ \A p \in Provers(e, ws, q) : i <= p}

\* positions of the conditionals of a rule that are in ws
KnownConditionals(rule, ws) ==
  {j \in 1..Len(rule.Conditionals) : rule.Conditionals[j] \in ws}

RECURSIVE SetSum(_, _)
SetSum(f, S) ==
  IF S = {} THEN 0
  ELSE LET x == CHOOSE y \in S : TRUE IN f[x] + SetSum(f, S \ {x})

Deps(e, S) ==
  UNION {Range(e.Rules[i].Conditionals) :
           i \in {k \in 1..Len(e.Rules) : e.Rules[k].Derivation \in S}}

\* S and every fact the rules for a fact of S lead back to
RECURSIVE Reach(_, _)
Reach(e, S) ==
  LET n == S \cup Deps(e, S) IN IF n = S THEN S ELSE Reach(e, n)

\* the rules lead from q back to q
OnCycle(e, q) == q \in Reach(e, Deps(e, {q}))

\* some fact the search from q reaches is on a cycle
CycleBelow(e, q) == \E f \in Reach(e, {q}) : OnCycle(e, f)

\* nothing the search from q reaches is a true fact, and every rule it
\* reaches has a conditional: no nested call can return true
Barren(e, ws, q) ==
  /\ Reach(e, {q}) \cap ws = {}
  /\ \A i \in 1..Len(e.Rules) :
       e.Rules[i].Derivation \in Reach(e, {q})
         => e.Rules[i].Conditionals # <<>>

BackwardCall(c) ==
  call[c].kind = "Backward" /\ call[c].pc # "idle" /\ call[c].err = ""

C13_WorkingSetDuplicateFree ==
  \A c \in DOMAIN call :
    (/\ call[c].kind = "Forward"
     /\ call[c].err = ""
     /\ IsInjective(call[c].trueFactNames))
      => IsInjective(call[c].trueFacts)

\* C14: whatever Backward derives, Forward derives: when a call of Backward
\* with a true-fact list that names no fact twice returns "derived", the
\* call of Forward with the same list and query returns "derived" too.
C14_BackwardWithinForward ==
  \A c \in DOMAIN call :
    (/\ ReturnedBackward(c)
     /\ IsInjective(call[c].trueFactNames)
     /\ call[c].isDerived)
      => LET f == ForwardReturns(engine, call[c].trueFactNames,
                                 call[c].queryName)
         IN f.err = "" /\ f.isDerived

\* Backward derived the query through a rule with antecedents, and Forward
\* derives it by firing a rule
C14_Witness ==
  \E c \in DOMAIN call :
    /\ ReturnedBackward(c)
    /\ call[c].isDerived
    /\ call[c].query \notin Range(call[c].trueFacts)
    /\ call[c].calls > 1
    /\ LET f == ForwardReturns(engine, call[c].trueFactNames,
                               call[c].queryName)
       IN f.isDerived /\ f.usedRulesNames # <<>>

\* the converse fails: Forward derives through two rules in a chain what
\* Backward does not
C14_ForwardBeyondBackward ==
  \E c \in DOMAIN call :
    /\ ReturnedBackward(c)
    /\ ~call[c].isDerived
    /\ ForwardReturns(engine, call[c].trueFactNames,
                      call[c].queryName).isDerived

====
